---- MODULE Spec2Model ----
(***************************************************************************)
(* Distributed DMPO agent of vnl-ray: the learner's gradient step with its *)
(* target-network synchronisation, step counters and versioned policy      *)
(* snapshots (flybody/agents/learning_dmpo.py), and the actor / evaluator  *)
(* episode loop with its rolling statistics and snapshot polling           *)
(* (vnl_ray/agents/ray_distributed_dmpo.py); further the replay table with *)
(* its rate limiter and Fifo remover, the learner's run() bursts and       *)
(* get_variables, the actor's variable client, and the learner's           *)
(* checkpoint and its restore.                                             *)
(*                                                                         *)
(* Network parameters are abstracted to integers: the value an optimizer   *)
(* writes in the step that raises _num_steps to k is k, so two parameter   *)
(* sets are equal exactly when they stem from the same optimizer write.    *)
(* Paths are sequences of tokens: "P" stands for the literal text          *)
(* "policy-", "/" for the separator, "0".."9" for the digits and "x" for   *)
(* any other text.                                                         *)
(***************************************************************************)
EXTENDS Integers, Sequences, FiniteSets, TLC

VARIABLES
    \* ---- DistributionalMPOLearner ----
    target_policy_update_period,  \* self._target_policy_update_period
    target_critic_update_period,  \* self._target_critic_update_period
    num_steps,                    \* self._num_steps (tf.Variable)
    counter_steps,                \* self._counter "steps"
    observation,                  \* online observation network parameters
    policy,                       \* online policy network parameters
    critic,                       \* online critic network parameters
    dual,                         \* MPO dual variables (policy_loss_module)
    optimizers,                   \* the policy, critic and dual optimizers' slots, by group
    target_observation,           \* target observation network parameters
    target_policy,                \* target policy network parameters
    target_critic,                \* target critic network parameters
    snapshots,                    \* keys of self._snapshotter._snapshots, {} when no snapshotter
    disk,                         \* snapshot paths written to the file system
    snap_log,                     \* trailing versions of the successful writes, in order
    last_step,                    \* outcome of the last step() call: "none", "ok", "raised"
    \* ---- EnvironmentLoop (actor / evaluator) ----
    actor_or_evaluator,           \* self._actor_or_evaluator
    eval_average_over,            \* self._config.eval_average_over
    snapshotter_dir,              \* self._snapshotter_dir
    dir_exists,                   \* whether snapshotter_dir exists on the file system
    stats,                        \* self._stats
    highest_snap_num,             \* self._highest_snap_num
    latest_snapshot,              \* self._latest_snapshot (<<>> for None)
    poll,                         \* the last load_snapshot_and_render call: the number it
                                  \* claimed (-1: none) and how tf.saved_model.load ended
    last_video,                   \* number of the last video written (-1: none)
    recorded,                     \* every logging_data appended to self._stats, in order
    result,                       \* what the last run_episode call returned or raised
    \* ---- ReplayServer (the Reverb table and its rate limiter) and its clients ----
    min_replay_size,              \* config.min_replay_size
    max_replay_size,              \* config.max_replay_size
    samples_per_insert,           \* config.samples_per_insert (None for no ratio limit)
    batch_size,                   \* config.batch_size
    table,                        \* keys of the resident items, oldest first
    inserts,                      \* items the rate limiter has admitted
    samples,                      \* samples the rate limiter has admitted
    deletes,                      \* items the remover has evicted
    fetched,                      \* sampled items the learner's dataset holds, not yet batched
    waiting,                      \* the learner is blocked in next(iterator)
    insert_blocked,               \* an actor's insert is held back by the rate limiter
    \* ---- Learner (the run / get_variables service around the learner) ----
    num_learner_steps,            \* config.num_learner_steps
    run_calls,                    \* run() calls started so far
    run_left,                     \* step() calls the running run() call still has to make
    run_done,                     \* step() calls the last run() call has completed
    run_result,                   \* the last run() call: "none", "running", "returned", "raised"
    get_variables_calls,          \* self._counter "get_variables_calls"
    returned,                     \* what the last get_variables call handed out, per name
    returned_was,                 \* the numbers it held when it was handed out
    \* ---- the actor and its variable client ----
    variable_source,              \* whether the loop was built with a variable source
    actor_update_period,          \* config.actor_update_period
    actor_pc,                     \* "init" until _make_actor is through, then "ready" or "failed"
    actor_policy,                 \* parameters of the actor's policy_network
    policy_at,                    \* the actor's environment step count when they were read
    env_steps,                    \* environment steps the actor has taken
    call_counter,                 \* variable_client._call_counter
    future,                       \* variable_client._future
    requested_at,                 \* the actor's environment step count at its last request
    \* ---- the learner's checkpoint and the restarts of its process ----
    checkpoint,                   \* what the last Checkpointer.save() wrote, by object name
    restarts,                     \* how often the learner has been built anew
    restored,                     \* whether the present learner was built from a whole checkpoint
    construction,                 \* "built", or "aborted" when __init__ raised
    \* ---- the environment loop's adder ----
    n_step,                       \* config n_step
    reverb_client,                \* whether the loop holds a reverb.Client
    adder,                        \* "n_step" for an NStepTransitionAdder, "none" for None
    first_idx,                    \* adder._first_idx
    last_idx,                     \* adder._last_idx
    episode_steps,                \* adder._writer.episode_steps
    timestep,                     \* environment steps taken in the present episode
    in_episode,                   \* whether an episode is under way
    episodes,                     \* episodes the loop has finished
    written                       \* the transitions handed to the replay client, in order

learner_vars == <<target_policy_update_period, target_critic_update_period,
                  num_steps, counter_steps, observation, policy, critic, dual, optimizers,
                  target_observation, target_policy, target_critic,
                  snapshots, snap_log, last_step>>

loop_vars == <<actor_or_evaluator, eval_average_over, snapshotter_dir, dir_exists,
               stats, highest_snap_num, latest_snapshot, poll, last_video, recorded,
               result>>

replay_vars == <<min_replay_size, max_replay_size, samples_per_insert, batch_size,
                 table, inserts, samples, deletes, fetched, waiting, insert_blocked>>

service_vars == <<num_learner_steps, run_calls, run_left, run_done, run_result,
                  get_variables_calls, returned, returned_was>>

actor_vars == <<variable_source, actor_update_period, actor_pc, actor_policy, policy_at,
                env_steps, call_counter, future, requested_at>>

checkpoint_vars == <<checkpoint, restarts, restored, construction>>

\* what the learner's step, the loop's, the replay table's and the learner
\* service's operations leave alone
adder_vars == <<n_step, reverb_client, adder, first_idx, last_idx, episode_steps, timestep,
                in_episode, episodes, written>>

outside_learner == <<loop_vars, replay_vars, actor_vars, adder_vars>>
outside_loop == <<learner_vars, disk, replay_vars, service_vars, actor_vars, checkpoint_vars,
                  adder_vars>>
outside_replay == <<learner_vars, disk, loop_vars, service_vars, actor_vars, checkpoint_vars,
                    adder_vars>>
outside_service == <<loop_vars, replay_vars, actor_vars, checkpoint_vars, adder_vars>>
outside_actor == <<learner_vars, disk, loop_vars, replay_vars, checkpoint_vars, adder_vars>>
outside_adder == <<learner_vars, disk, loop_vars, replay_vars, service_vars, actor_vars,
                   checkpoint_vars>>

vars == <<learner_vars, disk, loop_vars, replay_vars, service_vars, actor_vars,
          checkpoint_vars, adder_vars>>

----------------------------------------------------------------------------
\* Bounds of the model.

\* step() calls explored per learner
MaxSteps == 11
\* target update periods are drawn from 1..MaxPeriod
MaxPeriod == 2
\* eval_average_over is drawn from 1..MaxAverageOver
MaxAverageOver == 2
\* the episodes explored have the returns 0..MaxReturn
MaxReturn == 1
\* snapshots the learner process writes while an evaluator is observed
MaxSnapshots == 2
\* successful evaluator episodes explored
MaxEpisodes == 3
\* the replay sizes explored end at MaxReplaySize
MaxReplaySize == 11
\* samples_per_insert is None or drawn from 1..MaxSamplesPerInsert
MaxSamplesPerInsert == 2
\* batch_size is drawn from 1..MaxBatchSize
MaxBatchSize == 2
\* items inserted per replay table
MaxInserts == 13
\* samples served per replay table
MaxSamples == 8
\* num_learner_steps is drawn from 1..MaxLearnerSteps
MaxLearnerSteps == 2
\* run() calls explored per learner
MaxRuns == 2
\* get_variables calls explored per learner
MaxGetVariables == 2
\* actor_update_period is drawn from 1..MaxUpdatePeriod
MaxUpdatePeriod == 2
\* environment steps explored per actor
MaxEnvSteps == 5
\* learner steps that go by while one actor is observed
MaxLearnerLead == 2
\* step() calls explored per learner that checkpoints and restarts
MaxCheckpointSteps == 3
\* restarts explored per learner
MaxRestarts == 1
\* n_step is drawn from 1..MaxNStep
MaxNStep == 3
\* environment steps explored per episode of a loop with an adder
MaxEpisodeLength == 4
\* episodes explored per loop with an adder
MaxAdderEpisodes == 2

----------------------------------------------------------------------------
\* Python string helpers over token sequences.

DigitChars == <<"0", "1", "2", "3", "4", "5", "6", "7", "8", "9">>

IsDigit(c) == \E d \in 1..10 : DigitChars[d] = c

DigitValue(c) == (CHOOSE d \in 1..10 : DigitChars[d] = c) - 1

\* str(n) for n >= 0
RECURSIVE Str(_)
Str(n) == IF n < 10 THEN <<DigitChars[n + 1]>>
          ELSE Str(n \div 10) \o <<DigitChars[(n % 10) + 1]>>

\* int(s) for a non-empty digit string s
RECURSIVE ToInt(_)
ToInt(s) == IF s = <<>> THEN 0
          ELSE ToInt(SubSeq(s, 1, Len(s) - 1)) * 10 + DigitValue(s[Len(s)])

\* re.findall("[\d]+$", path)[0]: the longest run of digits ending the path
TrailingDigits(path) ==
    LET k == CHOOSE i \in 1..(Len(path) + 1) :
                 /\ \A j \in i..Len(path) : IsDigit(path[j])
                 /\ (i = 1 \/ ~IsDigit(path[i - 1]))
    IN SubSeq(path, k, Len(path))

HasPrefix(s, pre) == Len(s) >= Len(pre) /\ SubSeq(s, 1, Len(pre)) = pre

\* s.replace(old, new): every non-overlapping occurrence, leftmost first
RECURSIVE Replace(_, _, _)
Replace(s, old, new) ==
    IF Len(s) < Len(old) THEN s
    ELSE IF HasPrefix(s, old)
         THEN new \o Replace(SubSeq(s, Len(old) + 1, Len(s)), old, new)
         ELSE <<Head(s)>> \o Replace(Tail(s), old, new)

\* os.path.join(directory, name)
Join(directory, name) == directory \o <<"/">> \o name

\* the text "policy-<n>"
PolicyName(n) == <<"P">> \o Str(n)

\* the version a snapshot path carries: its trailing number
Version(path) == ToInt(TrailingDigits(path))

\* Path.name: the text after the last separator
Name(path) ==
    LET k == CHOOSE i \in 0..Len(path) :
                 /\ (i = 0 \/ path[i] = "/")
                 /\ \A j \in (i + 1)..Len(path) : path[j] # "/"
    IN SubSeq(path, k + 1, Len(path))

\* Path.parent: the text before the last separator
Parent(path) == SubSeq(path, 1, Len(path) - Len(Name(path)) - 1)

\* snapshot directories: a plain one, and one whose own name contains "policy-0"
Directories == {<<"x">>, <<"P", "0", "x">>}

----------------------------------------------------------------------------
\* DistributionalMPOLearner

\* parameter values of freshly initialised online and target networks
OnlineInit == 0
TargetInit == -1

LearnerParams ==
    [observation |-> observation, policy |-> policy, critic |-> critic, dual |-> dual,
     optimizers |-> optimizers,
     target_observation |-> target_observation, target_policy |-> target_policy,
     target_critic |-> target_critic]

Targets(p) == <<p.target_observation, p.target_policy, p.target_critic>>

\* variant: the policy sync scheduled on the critic's period
PolicySyncDueOnCriticPeriod(n) == n % target_critic_update_period = 0

\* tf.math.mod(self._num_steps, self._target_policy_update_period) == 0
PolicySyncDue(n) == n % target_policy_update_period = 0

\* variant: no critic sync at step count 0
CriticSyncDueAfterStart(n) == n > 0 /\ n % target_critic_update_period = 0

\* tf.math.mod(self._num_steps, self._target_critic_update_period) == 0
CriticSyncDue(n) == n % target_critic_update_period = 0

\* online policy -> target policy
SyncPolicy(p, n) ==
    IF PolicySyncDue(n) THEN [p EXCEPT !.target_policy = p.policy] ELSE p

\* variant: a critic sync that copies the critic network only
SyncCriticWithoutObservation(p, n) ==
    IF CriticSyncDue(n) THEN [p EXCEPT !.target_critic = p.critic] ELSE p

\* online observation + critic -> target observation + critic
SyncCritic(p, n) ==
    IF CriticSyncDue(n)
    THEN [p EXCEPT !.target_observation = p.observation,
                   !.target_critic = p.critic]
    ELSE p

\* the target update at the start of _step, for step count n
SyncTargets(p, n) == SyncCritic(SyncPolicy(p, n), n)

\* the parameter groups the critic loss is differentiated by
CriticTrainableVariables == {"observation", "critic"}

\* variant: the policy loss differentiated by the observation network too
PolicyTrainableVariablesWithObservation == {"observation", "policy"}

\* the parameter groups the policy loss is differentiated by
PolicyTrainableVariables == {"policy"}

\* the MPO dual variables, held by the policy loss module
DualTrainableVariables == {"dual"}

\* an optimizer that has applied nothing yet keeps no slot
NoSlots == [name \in {} |-> OnlineInit]

\* optimizer.apply(gradients, trainable_variables): the optimizer writes v
\* into the groups handed to it and keeps one slot for each of them
Apply(p, optimizer, trainable_variables, v) ==
    [name \in DOMAIN p |->
        IF name \in trainable_variables THEN v
        ELSE IF name = "optimizers"
             THEN [p.optimizers EXCEPT ![optimizer] = [group \in trainable_variables |-> v]]
             ELSE p[name]]

\* variant: the critic optimizer applied to the target observation network
ApplyGradientsIntoTarget(p, v) ==
    Apply(Apply(Apply(p, "critic", {"target_observation", "critic"}, v),
                "policy", PolicyTrainableVariables, v),
          "dual", DualTrainableVariables, v)

\* the three optimizer applications; v is the value they write
ApplyGradients(p, v) ==
    Apply(Apply(Apply(p, "critic", CriticTrainableVariables, v),
                "policy", PolicyTrainableVariables, v),
          "dual", DualTrainableVariables, v)

\* variant: the key is left as it is after a save
SnapshotRenameKeepsVersion(path) == path

\* the key a snapshot moves to after a successful save
SnapshotRename(path) ==
    LET current_counter == TrailingDigits(path)
    IN Replace(path, <<"P">> \o current_counter,
               <<"P">> \o Str(ToInt(current_counter) + 1))

\* a successful Snapshotter.save() followed by the renaming of its keys
WriteSnapshot ==
    /\ disk' = disk \cup snapshots
    /\ snapshots' = {SnapshotRename(path) : path \in snapshots}
    /\ snap_log' = snap_log \o <<Version(CHOOSE path \in snapshots : TRUE)>>

SetParams(p) ==
    /\ observation' = p.observation
    /\ policy' = p.policy
    /\ critic' = p.critic
    /\ dual' = p.dual
    /\ optimizers' = p.optimizers
    /\ target_observation' = p.target_observation
    /\ target_policy' = p.target_policy
    /\ target_critic' = p.target_critic

\* step() when next(self._iterator) delivers a batch. saved is what
\* Snapshotter.save() returns: FALSE when its time gate skips the write.
Step(saved) ==
    /\ num_steps < MaxSteps
    /\ SetParams(ApplyGradients(SyncTargets(LearnerParams, num_steps), num_steps + 1))
    /\ num_steps' = num_steps + 1
    /\ counter_steps' = counter_steps + 1
    /\ IF snapshots # {} /\ saved
       THEN WriteSnapshot
       ELSE UNCHANGED <<disk, snapshots, snap_log>>
    /\ last_step' = "ok"
    /\ UNCHANGED <<target_policy_update_period, target_critic_update_period>>
    /\ UNCHANGED outside_learner

\* step() when next(self._iterator) raises: the statements of _step before
\* the fetch have run, nothing after it has.
StepRaises ==
    /\ num_steps < MaxSteps
    /\ SetParams(SyncTargets(LearnerParams, num_steps))
    /\ num_steps' = num_steps + 1
    /\ last_step' = "raised"
    /\ UNCHANGED <<counter_steps, disk, snapshots, snap_log>>
    /\ UNCHANGED <<target_policy_update_period, target_critic_update_period>>
    /\ UNCHANGED outside_learner

\* the state __init__ leaves a learner in
FreshLearner(policy_period, critic_period, directory, checkpoint_enable) ==
    /\ target_policy_update_period = policy_period
    /\ target_critic_update_period = critic_period
    /\ num_steps = 0
    /\ counter_steps = 0
    /\ observation = OnlineInit
    /\ policy = OnlineInit
    /\ critic = OnlineInit
    /\ dual = OnlineInit
    /\ optimizers = [policy |-> NoSlots, critic |-> NoSlots, dual |-> NoSlots]
    /\ target_observation = TargetInit
    /\ target_policy = TargetInit
    /\ target_critic = TargetInit
    /\ snapshots = IF checkpoint_enable THEN {Join(directory, PolicyName(0))} ELSE {}
    /\ disk = {}
    /\ snap_log = <<>>
    /\ last_step = "none"

----------------------------------------------------------------------------
\* EnvironmentLoop

\* the logging data of the episodes explored: one episode per return, of
\* length 1 or 2
LoggingData ==
    {[episode_length |-> 1 + (r % 2), episode_return |-> r] : r \in 0..MaxReturn}

\* {"episode_length": 0, "episode_return": 0, "steps_per_second": 0}
NullResult == [episode_length |-> 0, episode_return |-> 0]

RECURSIVE SumOf(_)
SumOf(xs) == IF xs = <<>> THEN 0 ELSE Head(xs) + SumOf(Tail(xs))

Column(window, key) == [i \in 1..Len(window) |-> window[i][key]]

Squares(xs) == [i \in 1..Len(xs) |-> xs[i] * xs[i]]

MaxOf(xs) == CHOOSE m \in {xs[i] : i \in 1..Len(xs)} : \A i \in 1..Len(xs) : xs[i] <= m

MinOf(xs) == CHOOSE m \in {xs[i] : i \in 1..Len(xs)} : \A i \in 1..Len(xs) : m <= xs[i]

\* np.mean as the fraction <<numerator, denominator>>
Mean(xs) == <<SumOf(xs), Len(xs)>>

\* np.var (population variance) as the fraction <<numerator, denominator>>
Var(xs) == <<Len(xs) * SumOf(Squares(xs)) - SumOf(xs) * SumOf(xs), Len(xs) * Len(xs)>>

\* the aggregate entries _eval_agg_stat computes over a window
Aggregate(window) ==
    LET returns == Column(window, "episode_return")
        lengths == Column(window, "episode_length")
    IN [avg_episode_return |-> Mean(returns), avg_episode_length |-> Mean(lengths),
        var_episode_return |-> Var(returns), var_episode_length |-> Var(lengths),
        max_episode_return |-> MaxOf(returns), max_episode_length |-> MaxOf(lengths),
        min_episode_return |-> MinOf(returns), min_episode_length |-> MinOf(lengths),
        curr_episode_return |-> returns, curr_episode_length |-> lengths]

\* variant: aggregates reported for any non-empty window
EvalAggStatAlways(window) == IF window # <<>> THEN <<Aggregate(window)>> ELSE <<>>

\* _eval_agg_stat: <<>> is the empty dict, <<a>> the dict of the aggregates a
EvalAggStat(window) ==
    IF Len(window) >= eval_average_over THEN <<Aggregate(window)>> ELSE <<>>

\* variant: the pop takes the entry just appended
RecordStatsDropsNewest(window, logging_data) ==
    LET appended == Append(window, logging_data)
    IN IF Len(appended) >= eval_average_over THEN window ELSE appended

\* self._stats after the append and the pop of run_episode
RecordStats(window, logging_data) ==
    LET appended == Append(window, logging_data)
    IN IF Len(appended) >= eval_average_over THEN Tail(appended) ELSE appended

\* re.match(r"policy-(\d+)", name): the matched number, -1 when there is no match
MatchNumber(name) ==
    IF Len(name) >= 2 /\ name[1] = "P" /\ IsDigit(name[2])
    THEN LET last == CHOOSE i \in 2..Len(name) :
                         /\ \A j \in 2..i : IsDigit(name[j])
                         /\ (i = Len(name) \/ ~IsDigit(name[i + 1]))
         IN ToInt(SubSeq(name, 2, last))
    ELSE -1

\* self._snapshotter_dir.iterdir()
Entries == {path \in disk : Parent(path) = snapshotter_dir}

\* variant: an entry with the number already claimed counts as new
NewerOrSame == {path \in Entries : MatchNumber(Name(path)) >= highest_snap_num}

\* the entries the loop of load_snapshot_and_render claims one after another
Newer == {path \in Entries : MatchNumber(Name(path)) > highest_snap_num}

\* the entry the loop ends on: the highest number among the newer ones
Newest == CHOOSE path \in Newer :
              \A other \in Newer : MatchNumber(Name(other)) <= MatchNumber(Name(path))

\* variant: a failed load keeps the claimed number
RolledBackKeepsClaim(number) == number

\* self._highest_snap_num -= 1 after a failed load
RolledBack(number) == number - 1

\* a poll that found nothing new to load
NoClaim == [claimed |-> -1, load |-> "none"]

Returned(logging_data, agg, rollout) ==
    [outcome |-> "returned", data |-> logging_data, agg |-> agg, rollout |-> rollout]

Raised(logging_data) ==
    [outcome |-> "raised", data |-> logging_data, agg |-> <<>>, rollout |-> -1]

\* variant: the zeroed result is recorded like the result of an episode
RunEpisodeRolloutRaisesRecorded ==
    /\ result' = Returned(NullResult, <<>>, -1)
    /\ stats' = IF actor_or_evaluator = "evaluator"
                THEN RecordStats(stats, NullResult) ELSE stats
    /\ UNCHANGED <<actor_or_evaluator, eval_average_over, snapshotter_dir, dir_exists,
                   highest_snap_num, latest_snapshot, poll, last_video, recorded>>
    /\ UNCHANGED outside_loop

\* run_episode when the rollout of the episode raises
RunEpisodeRolloutRaises ==
    /\ result' = Returned(NullResult, <<>>, -1)
    /\ UNCHANGED <<actor_or_evaluator, eval_average_over, snapshotter_dir, dir_exists,
                   stats, highest_snap_num, latest_snapshot, poll, last_video, recorded>>
    /\ UNCHANGED outside_loop

\* run_episode of an actor
RunEpisodeActor(logging_data) ==
    /\ actor_or_evaluator = "actor"
    /\ result' = Returned(logging_data, <<>>, -1)
    /\ UNCHANGED <<actor_or_evaluator, eval_average_over, snapshotter_dir, dir_exists,
                   stats, highest_snap_num, latest_snapshot, poll, last_video, recorded>>
    /\ UNCHANGED outside_loop

\* run_episode of an evaluator. load is the outcome of tf.saved_model.load
\* when a new snapshot is claimed: "ok" or "oserror".
RunEpisodeEvaluator(logging_data, load) ==
    /\ actor_or_evaluator = "evaluator"
    /\ Len(recorded) < MaxEpisodes
    /\ recorded' = Append(recorded, logging_data)
    /\ stats' = RecordStats(stats, logging_data)
    /\ IF ~dir_exists
       THEN \* iterdir raises FileNotFoundError
            /\ result' = Raised(logging_data)
            /\ UNCHANGED <<highest_snap_num, latest_snapshot, poll, last_video>>
       ELSE IF Newer = {}
       THEN /\ result' = Returned(logging_data, EvalAggStat(stats'), -1)
            /\ poll' = NoClaim
            /\ UNCHANGED <<highest_snap_num, latest_snapshot, last_video>>
       ELSE LET number == MatchNumber(Name(Newest))
            IN /\ latest_snapshot' = Newest
               /\ poll' = [claimed |-> number, load |-> load]
               /\ IF load = "oserror"
                  THEN /\ highest_snap_num' = RolledBack(number)
                       /\ last_video' = last_video
                       /\ result' = Returned(logging_data, EvalAggStat(stats'), -1)
                  ELSE /\ highest_snap_num' = number
                       /\ last_video' = number
                       /\ result' = Returned(logging_data, EvalAggStat(stats'), number)
    /\ UNCHANGED <<actor_or_evaluator, eval_average_over, snapshotter_dir, dir_exists>>
    /\ UNCHANGED outside_loop

\* a step of the learner process as the evaluator's file system shows it:
\* one more snapshot written
LearnerSnapshot ==
    /\ snapshots # {}
    /\ Len(snap_log) < MaxSnapshots
    /\ WriteSnapshot
    /\ UNCHANGED <<target_policy_update_period, target_critic_update_period,
                   num_steps, counter_steps, observation, policy, critic, dual, optimizers,
                   target_observation, target_policy, target_critic, last_step>>
    /\ UNCHANGED outside_learner
    /\ UNCHANGED <<service_vars, checkpoint_vars>>

\* the state __init__ leaves an environment loop in
FreshLoop(mode, average_over, directory, exists) ==
    /\ actor_or_evaluator = mode
    /\ eval_average_over = average_over
    /\ snapshotter_dir = directory
    /\ dir_exists = exists
    /\ stats = <<>>
    /\ highest_snap_num = -1
    /\ latest_snapshot = <<>>
    /\ poll = NoClaim
    /\ last_video = -1
    /\ recorded = <<>>
    /\ result = [outcome |-> "none", data |-> NullResult, agg |-> <<>>, rollout |-> -1]

----------------------------------------------------------------------------
\* ReplayServer: one Reverb table with a Uniform sampler, a Fifo remover and a
\* rate limiter.  The limiter's quantities are kept in tenths (Tenth of them
\* make one), since the error buffer is a tenth of an integer.

\* samples_per_insert = None
None == 0
Tenth == 10

Max(a, b) == IF a >= b THEN a ELSE b

\* variant: sampling is admitted one item early
MinSizeToSampleBelow == min_replay_size - 1

\* min_size_to_sample of either limiter
MinSizeToSample == min_replay_size

\* variant: twice the tolerance
ErrorBufferDoubled == 2 * min_replay_size * samples_per_insert

\* error_buffer = min_replay_size * (0.1 * samples_per_insert), in tenths
ErrorBuffer == min_replay_size * samples_per_insert

\* the limiter __init__ builds: MinSize admits by size only, SampleToInsertRatio
\* keeps inserts * samples_per_insert - samples between min_diff and max_diff
Limiter ==
    IF samples_per_insert = None
    THEN [ratio |-> FALSE, min_size_to_sample |-> MinSizeToSample,
          samples_per_insert |-> 1, min_diff |-> 0, max_diff |-> 0]
    ELSE [ratio |-> TRUE, min_size_to_sample |-> MinSizeToSample,
          samples_per_insert |-> samples_per_insert,
          min_diff |-> Tenth * samples_per_insert * MinSizeToSample - ErrorBuffer,
          max_diff |-> Tenth * samples_per_insert * MinSizeToSample + ErrorBuffer]

\* variant: every error buffer is accepted
LimiterAcceptedWhateverTheBuffer == TRUE

\* SampleToInsertRatio raises ValueError for an error buffer below
\* max(1, samples_per_insert)
LimiterAccepted ==
    Limiter.ratio => ErrorBuffer >= Tenth * Max(1, samples_per_insert)

\* the rate limiter's admission of n samples
CanSample(n) ==
    /\ inserts - deletes >= Limiter.min_size_to_sample
    /\ Limiter.ratio =>
          Tenth * (inserts * Limiter.samples_per_insert - samples - n) >= Limiter.min_diff

\* the rate limiter's admission of n inserts
CanInsert(n) ==
    \/ inserts + n - deletes <= Limiter.min_size_to_sample
    \/ Limiter.ratio =>
          Tenth * ((inserts + n) * Limiter.samples_per_insert - samples) <= Limiter.max_diff

\* variant: the remover takes the newest item
RemoveNewest(items) == SubSeq(items, 1, Len(items) - 1)

\* remover = Fifo: the oldest item goes
Remove(items) == Tail(items)

\* the table after the insert of key: at max_size the remover makes room
Inserted(items, key) ==
    IF Len(items) >= max_replay_size THEN Append(Remove(items), key)
    ELSE Append(items, key)

\* an actor's adder inserts one item
Insert ==
    /\ inserts < MaxInserts
    /\ IF CanInsert(1)
       THEN /\ table' = Inserted(table, inserts)
            /\ inserts' = inserts + 1
            /\ deletes' = deletes + (IF Len(table) >= max_replay_size THEN 1 ELSE 0)
            /\ insert_blocked' = FALSE
       ELSE /\ insert_blocked' = TRUE
            /\ UNCHANGED <<table, inserts, deletes>>
    /\ UNCHANGED <<min_replay_size, max_replay_size, samples_per_insert, batch_size,
                   samples, fetched, waiting>>
    /\ UNCHANGED outside_replay

\* the learner's dataset draws one item for the batch it assembles
Sample ==
    /\ samples < MaxSamples
    /\ fetched < batch_size
    /\ CanSample(1)
    /\ samples' = samples + 1
    /\ fetched' = fetched + 1
    /\ UNCHANGED <<min_replay_size, max_replay_size, samples_per_insert, batch_size,
                   table, inserts, deletes, waiting, insert_blocked>>
    /\ UNCHANGED outside_replay

\* next(self._iterator) in the learner's step: a whole batch or none
NextBatch ==
    /\ IF fetched >= batch_size
       THEN /\ fetched' = fetched - batch_size
            /\ waiting' = FALSE
       ELSE /\ waiting' = TRUE
            /\ UNCHANGED fetched
    /\ UNCHANGED <<min_replay_size, max_replay_size, samples_per_insert, batch_size,
                   table, inserts, samples, deletes, insert_blocked>>
    /\ UNCHANGED outside_replay

\* the state __init__ leaves the replay server in, before any client calls
FreshReplay(min_size, max_size, ratio, batch) ==
    /\ min_replay_size = min_size
    /\ max_replay_size = max_size
    /\ samples_per_insert = ratio
    /\ batch_size = batch
    /\ table = <<>>
    /\ inserts = 0
    /\ samples = 0
    /\ deletes = 0
    /\ fetched = 0
    /\ waiting = FALSE
    /\ insert_blocked = FALSE

----------------------------------------------------------------------------
\* Learner: run() in bursts of num_learner_steps steps, and get_variables.

\* variant: the online networks are exposed
ExposedOnline(name) ==
    IF name = "policy" THEN <<observation, policy>>
    ELSE <<critic>>

\* the variables the learner exposes under a name
Exposed(name) ==
    IF name = "policy" THEN <<target_observation, target_policy>>
    ELSE <<target_critic>>

\* variant: the variables themselves are handed out
LiveVariables(name) == [live |-> TRUE, name |-> name, value |-> Exposed(name)]

\* tf2_utils.to_numpy: arrays holding the variables' present numbers
ToNumpy(name) == [live |-> FALSE, name |-> name, value |-> Exposed(name)]

\* the numbers a handed-out value holds now
Deref(handle) == IF handle.live THEN Exposed(handle.name) ELSE handle.value

\* where a client's write into a handed-out value lands
WrittenInto(handle, number) ==
    [handle EXCEPT !.value = [i \in 1..Len(handle.value) |-> number]]

\* the number a client writes into an array it was handed
ClientMark == -3

\* variant: the burst is one step short
BurstLengthShort == num_learner_steps - 1

\* range(self._config.num_learner_steps)
BurstLength == num_learner_steps

\* the learner process is not inside a run() call, so it takes the next call
Idle == run_result # "running"

\* run() is called
Run ==
    /\ Idle
    /\ run_calls < MaxRuns
    /\ run_calls' = run_calls + 1
    /\ run_left' = BurstLength
    /\ run_done' = 0
    /\ run_result' = IF BurstLength = 0 THEN "returned" ELSE "running"
    /\ UNCHANGED <<num_learner_steps, get_variables_calls, returned, returned_was>>
    /\ UNCHANGED <<learner_vars, disk>>
    /\ UNCHANGED outside_service

\* one self.step() of the running run() call
BurstStep(saved) ==
    /\ run_result = "running"
    /\ Step(saved)
    /\ run_left' = run_left - 1
    /\ run_done' = run_done + 1
    /\ run_result' = IF run_left = 1 THEN "returned" ELSE "running"
    /\ UNCHANGED <<num_learner_steps, run_calls, get_variables_calls, returned, returned_was>>
    /\ UNCHANGED checkpoint_vars

\* a self.step() that raises ends the run() call
BurstStepRaises ==
    /\ run_result = "running"
    /\ StepRaises
    /\ run_left' = 0
    /\ run_result' = "raised"
    /\ UNCHANGED <<num_learner_steps, run_calls, run_done, get_variables_calls,
                   returned, returned_was>>
    /\ UNCHANGED checkpoint_vars

\* get_variables(names), served when the learner process is free
GetVariables(names) ==
    /\ Idle
    /\ get_variables_calls < MaxGetVariables
    /\ get_variables_calls' = get_variables_calls + 1
    /\ returned' = [i \in 1..Len(names) |-> ToNumpy(names[i])]
    /\ returned_was' = [i \in 1..Len(names) |-> Exposed(names[i])]
    /\ UNCHANGED <<num_learner_steps, run_calls, run_left, run_done, run_result>>
    /\ UNCHANGED <<learner_vars, disk>>
    /\ UNCHANGED outside_service

\* a client overwrites the first value it was handed
ClientWrites ==
    /\ returned # <<>>
    /\ returned_was[1] # [i \in 1..Len(returned_was[1]) |-> ClientMark]
    /\ IF returned[1].live
       THEN /\ target_policy' = IF returned[1].name = "policy" THEN ClientMark
                                ELSE target_policy
            /\ target_observation' = IF returned[1].name = "policy" THEN ClientMark
                                     ELSE target_observation
            /\ target_critic' = IF returned[1].name = "policy" THEN target_critic
                                ELSE ClientMark
            /\ UNCHANGED returned
       ELSE /\ returned' = [returned EXCEPT ![1] = WrittenInto(returned[1], ClientMark)]
            /\ UNCHANGED <<target_policy, target_observation, target_critic>>
    /\ returned_was' = [returned_was EXCEPT
                           ![1] = [i \in 1..Len(returned_was[1]) |-> ClientMark]]
    /\ UNCHANGED <<target_policy_update_period, target_critic_update_period, num_steps,
                   counter_steps, observation, policy, critic, dual, optimizers, snapshots,
                   snap_log, last_step, disk>>
    /\ UNCHANGED <<num_learner_steps, run_calls, run_left, run_done, run_result,
                   get_variables_calls>>
    /\ UNCHANGED outside_service

\* the state __init__ leaves the learner service in
FreshService(learner_steps) ==
    /\ num_learner_steps = learner_steps
    /\ run_calls = 0
    /\ run_left = 0
    /\ run_done = 0
    /\ run_result = "none"
    /\ get_variables_calls = 0
    /\ returned = <<>>
    /\ returned_was = <<>>

----------------------------------------------------------------------------
\* The actor of an environment loop and its variable client.

\* parameters networks.init gives the actor's own networks
ActorInit == -2
OwnParameters == <<ActorInit, ActorInit>>

NoFuture == [state |-> "none", value |-> <<>>, at |-> 0]

\* variant: the period is the hard-coded one, whatever the config says
UpdatePeriodHardCoded == MaxUpdatePeriod + 1

\* update_period = self._config.actor_update_period
UpdatePeriod == actor_update_period

\* variant: the actor is returned without the first fetch
MakeActorWithoutWait ==
    /\ actor_pc = "init"
    /\ actor_pc' = "ready"
    /\ UNCHANGED <<variable_source, actor_update_period, actor_policy, policy_at, env_steps,
                   call_counter, future, requested_at>>
    /\ UNCHANGED service_vars
    /\ UNCHANGED outside_actor

\* _make_actor: with a variable source, update_and_wait() returns once the
\* learner has answered get_variables(["policy"])
MakeActor ==
    /\ actor_pc = "init"
    /\ actor_pc' = "ready"
    /\ IF variable_source
       THEN /\ actor_policy' = Deref(ToNumpy("policy"))
            /\ get_variables_calls' = get_variables_calls + 1
       ELSE UNCHANGED <<actor_policy, get_variables_calls>>
    /\ UNCHANGED <<variable_source, actor_update_period, policy_at, env_steps,
                   call_counter, future, requested_at>>
    /\ UNCHANGED <<num_learner_steps, run_calls, run_left, run_done, run_result,
                   returned, returned_was>>
    /\ UNCHANGED outside_actor

\* the first fetch raises: __init__ raises and there is no loop to run
MakeActorFails ==
    /\ actor_pc = "init"
    /\ variable_source
    /\ actor_pc' = "failed"
    /\ UNCHANGED <<variable_source, actor_update_period, actor_policy, policy_at, env_steps,
                   call_counter, future, requested_at>>
    /\ UNCHANGED service_vars
    /\ UNCHANGED outside_actor

\* variable_client.update(): count the call, send a request once the period
\* is reached and none is under way, adopt the answer of a finished one
ClientUpdate ==
    LET counted == IF call_counter < UpdatePeriod THEN call_counter + 1 ELSE call_counter
        period_reached == counted >= UpdatePeriod
    IN  IF future.state = "done"
        THEN /\ actor_policy' = future.value
             /\ policy_at' = future.at
             /\ future' = NoFuture
             /\ call_counter' = counted
             /\ UNCHANGED requested_at
        ELSE IF period_reached /\ future.state = "none"
        THEN /\ future' = [state |-> "pending", value |-> <<>>, at |-> 0]
             /\ call_counter' = 0
             /\ requested_at' = env_steps'
             /\ UNCHANGED <<actor_policy, policy_at>>
        ELSE /\ call_counter' = counted
             /\ UNCHANGED <<actor_policy, policy_at, future, requested_at>>

\* the actor's update(): it hands over to its variable client, if it has one
ActorUpdate ==
    IF variable_source THEN ClientUpdate
    ELSE UNCHANGED <<actor_policy, policy_at, future, call_counter, requested_at>>

\* one environment step of run_episode: select an action, step the
\* environment, observe, update
EnvStep ==
    /\ actor_pc = "ready"
    /\ env_steps < MaxEnvSteps
    /\ env_steps' = env_steps + 1
    /\ ActorUpdate
    /\ UNCHANGED <<variable_source, actor_update_period, actor_pc>>
    /\ UNCHANGED service_vars
    /\ UNCHANGED outside_actor

\* the learner answers the request the client's thread has sent
AnswerRequest ==
    /\ future.state = "pending"
    /\ future' = [state |-> "done", value |-> Deref(ToNumpy("policy")), at |-> env_steps]
    /\ get_variables_calls' = get_variables_calls + 1
    /\ UNCHANGED <<variable_source, actor_update_period, actor_pc, actor_policy, policy_at,
                   env_steps, call_counter, requested_at>>
    /\ UNCHANGED <<num_learner_steps, run_calls, run_left, run_done, run_result,
                   returned, returned_was>>
    /\ UNCHANGED outside_actor

\* the learner goes on stepping while the actor runs
LearnerAdvance ==
    /\ num_steps < MaxLearnerLead
    /\ Step(FALSE)
    /\ UNCHANGED <<service_vars, checkpoint_vars>>

\* the state of a loop whose __init__ has reached _make_actor
FreshActor(source, period) ==
    /\ variable_source = source
    /\ actor_update_period = period
    /\ actor_pc = "init"
    /\ actor_policy = OwnParameters
    /\ policy_at = 0
    /\ env_steps = 0
    /\ call_counter = 0
    /\ future = NoFuture
    /\ requested_at = 0

----------------------------------------------------------------------------
\* The learner's Checkpointer, and a learner built from a checkpoint.

\* the objects handed to the Checkpointer
ObjectsToSave ==
    {"counter", "policy", "critic", "observation", "target_policy", "target_critic",
     "target_observation", "policy_optimizer", "critic_optimizer", "dual_optimizer",
     "policy_loss_module", "num_steps"}

\* variant: the step variable is not among the restored objects
RestoredObjectsWithoutNumSteps ==
    {"counter", "policy", "critic", "observation", "target_policy", "target_critic",
     "target_observation", "policy_optimizer", "critic_optimizer", "dual_optimizer",
     "policy_loss_module"}

\* the objects handed to tf.train.Checkpoint for the restore
RestoredObjects ==
    {"counter", "policy", "critic", "observation", "target_policy", "target_critic",
     "target_observation", "policy_optimizer", "critic_optimizer", "dual_optimizer",
     "policy_loss_module", "num_steps"}

\* the state of a learner, by the names its objects are saved under
ObjectsOf(steps, calls, p, n) ==
    [counter |-> [steps |-> steps, get_variables_calls |-> calls],
     policy |-> p.policy, critic |-> p.critic, observation |-> p.observation,
     target_policy |-> p.target_policy, target_critic |-> p.target_critic,
     target_observation |-> p.target_observation,
     policy_optimizer |-> p.optimizers.policy, critic_optimizer |-> p.optimizers.critic,
     dual_optimizer |-> p.optimizers.dual,
     policy_loss_module |-> p.dual, num_steps |-> n]

LearnerObjects == ObjectsOf(counter_steps, get_variables_calls, LearnerParams, num_steps)

\* the objects of a learner that __init__ has just built
FreshObjects ==
    ObjectsOf(0, 0,
              [observation |-> OnlineInit, policy |-> OnlineInit, critic |-> OnlineInit,
               dual |-> OnlineInit,
               optimizers |-> [policy |-> NoSlots, critic |-> NoSlots, dual |-> NoSlots],
               target_observation |-> TargetInit, target_policy |-> TargetInit,
               target_critic |-> TargetInit],
              0)

NoCheckpoint == [name \in {} |-> 0]

\* Checkpointer.save(): the present values of the objects to save
Save(objects) == [name \in ObjectsToSave |-> objects[name]]

\* _checkpoint.restore(checkpoint_to_load): every restored object that the
\* checkpoint holds takes its saved value
Restore(objects, saved) ==
    [name \in DOMAIN objects |->
        IF name \in RestoredObjects \cap DOMAIN saved THEN saved[name] ELSE objects[name]]

\* step() of a learner with a Checkpointer; checkpointed is whether the time
\* gate of Checkpointer.save() lets the write through
CheckpointedStep(saved, checkpointed) ==
    /\ num_steps < MaxCheckpointSteps
    /\ construction = "built"
    /\ Step(saved)
    /\ UNCHANGED service_vars
    /\ checkpoint' = IF snapshots # {} /\ checkpointed THEN Save(LearnerObjects')
                     ELSE checkpoint
    /\ UNCHANGED <<restarts, restored, construction>>

\* a step() that raises writes no checkpoint
UncheckpointedStepRaises ==
    /\ num_steps < MaxCheckpointSteps
    /\ construction = "built"
    /\ StepRaises
    /\ UNCHANGED checkpoint_vars
    /\ UNCHANGED service_vars

\* variant: the key goes on after the versions on disk
SnapshotKeyAtStartAfterDisk(directory) == Join(directory, PolicyName(Cardinality(disk)))

\* the key the Snapshotter is built with: "policy-0" in its directory
SnapshotKeyAtStart(directory) == Join(directory, PolicyName(0))

\* what __init__ leaves behind when its objects have the values given
Constructed(objects) ==
    /\ counter_steps' = objects.counter.steps
    /\ get_variables_calls' = objects.counter.get_variables_calls
    /\ policy' = objects.policy
    /\ critic' = objects.critic
    /\ observation' = objects.observation
    /\ target_policy' = objects.target_policy
    /\ target_critic' = objects.target_critic
    /\ target_observation' = objects.target_observation
    /\ optimizers' = [policy |-> objects.policy_optimizer,
                      critic |-> objects.critic_optimizer,
                      dual |-> objects.dual_optimizer]
    /\ dual' = objects.policy_loss_module
    /\ num_steps' = objects.num_steps
    /\ snapshots' = {SnapshotKeyAtStart(Parent(path)) : path \in snapshots}
    /\ last_step' = "none"
    /\ UNCHANGED <<target_policy_update_period, target_critic_update_period, disk, snap_log,
                   checkpoint>>
    /\ UNCHANGED <<num_learner_steps, run_calls, run_left, run_done, run_result,
                   returned, returned_was>>
    /\ UNCHANGED outside_learner

\* the learner process is started anew, with the last checkpoint as
\* checkpoint_to_load or without one
Restart(load) ==
    /\ restarts < MaxRestarts
    /\ load => DOMAIN checkpoint # {}
    /\ Constructed(IF load THEN Restore(FreshObjects, checkpoint) ELSE FreshObjects)
    /\ restarts' = restarts + 1
    /\ restored' = load
    /\ construction' = "built"

\* the groups of objects a checkpoint may hold when it covers a part of the
\* learner state only
PartialCheckpoints ==
    {{"counter", "num_steps"},
     {"policy", "critic", "observation", "target_policy", "target_critic",
      "target_observation"}}

\* the learner process is started anew with a checkpoint that holds the
\* objects held only: restore() matches what it finds, the assertion on the
\* match is commented out, and the objects the checkpoint lacks keep the
\* values __init__ gave them
RestartPartial(held) ==
    /\ restarts < MaxRestarts
    /\ DOMAIN checkpoint # {}
    /\ Constructed(Restore(FreshObjects, [name \in held |-> checkpoint[name]]))
    /\ restarts' = restarts + 1
    /\ restored' = FALSE
    /\ construction' = "built"

\* the learner process is started anew with a checkpoint_to_load that names no
\* checkpoint: restore() raises NotFoundError, nothing in __init__ catches it,
\* and no learner comes out of the constructor
RestartMissing ==
    /\ restarts < MaxRestarts
    /\ Constructed(FreshObjects)
    /\ restarts' = restarts + 1
    /\ restored' = FALSE
    /\ construction' = "aborted"

\* no checkpoint written, no restart yet
FreshCheckpoint ==
    /\ checkpoint = NoCheckpoint
    /\ restarts = 0
    /\ restored = FALSE
    /\ construction = "built"

----------------------------------------------------------------------------
\* The environment loop's adder: an NStepTransitionAdder over the loop's replay
\* client for an actor, None for an evaluator.

\* variant: a one-step adder, whatever the config says
AdderNStepOne(config_n_step) == 1

\* n_step=self._config.n_step
AdderNStep(config_n_step) == config_n_step

\* variant: every loop opens a replay client
ReverbClientAlways(mode) == TRUE

\* only an actor opens a replay client; an evaluator drops the address
ReverbClient(mode) == mode = "actor"

\* the adder handed to the actor: one over the replay client for an actor,
\* None for an evaluator
LoopAdder(mode, client) == IF client THEN "n_step" ELSE "none"

\* the transition from the observation at index first to the one at index
\* last of the present episode
Transition(first, last) ==
    [first |-> first, last |-> last, episode |-> episodes, by |-> actor_or_evaluator]

\* _write_last(): the shorter transitions that end at the last observation
WriteLast(first, last) ==
    [i \in 1..(last - first - 1) |-> Transition(first + i, last)]

\* actor.observe_first(): the adder starts an episode
ObserveFirst ==
    /\ ~in_episode
    /\ episodes < MaxAdderEpisodes
    /\ in_episode' = TRUE
    /\ timestep' = 0
    /\ IF adder = "none" THEN UNCHANGED <<first_idx, last_idx, episode_steps>>
       ELSE /\ first_idx' = 0
            /\ last_idx' = 0
            /\ episode_steps' = 0
    /\ UNCHANGED <<n_step, reverb_client, adder, episodes, written>>
    /\ UNCHANGED outside_adder

\* actor.observe(action, next_timestep) after an environment step; last is
\* whether next_timestep ends the episode.  adder.add() moves the window,
\* appends the step, writes one transition and, at the end of the episode,
\* the remaining shorter ones before it resets.
Observe(last) ==
    /\ in_episode
    /\ timestep < MaxEpisodeLength
    /\ timestep = MaxEpisodeLength - 1 => last
    /\ timestep' = timestep + 1
    /\ in_episode' = ~last
    /\ episodes' = IF last THEN episodes + 1 ELSE episodes
    /\ IF adder = "none" THEN UNCHANGED <<first_idx, last_idx, episode_steps, written>>
       ELSE LET first == IF episode_steps >= AdderNStep(n_step) THEN first_idx + 1
                         ELSE first_idx
                IN  /\ written' = written \o <<Transition(first, last_idx + 1)>>
                                   \o (IF last THEN WriteLast(first, last_idx + 1) ELSE <<>>)
                    /\ first_idx' = IF last THEN 0 ELSE first
                    /\ last_idx' = IF last THEN 0 ELSE last_idx + 1
                    /\ episode_steps' = IF last THEN 0 ELSE episode_steps + 1
    /\ UNCHANGED <<n_step, reverb_client, adder>>
    /\ UNCHANGED outside_adder

\* the adder side of a loop that __init__ has just built, with config n_step n
FreshAdder(n) ==
    /\ n_step = n
    /\ reverb_client = ReverbClient(actor_or_evaluator)
    /\ adder = LoopAdder(actor_or_evaluator, reverb_client)
    /\ first_idx = 0
    /\ last_idx = 0
    /\ episode_steps = 0
    /\ timestep = 0
    /\ in_episode = FALSE
    /\ episodes = 0
    /\ written = <<>>

----------------------------------------------------------------------------
\* Specifications

\* the learner on its own
InitLearner ==
    /\ \E policy_period \in 1..MaxPeriod, critic_period \in 1..MaxPeriod,
          directory \in Directories, checkpoint_enable \in BOOLEAN :
           FreshLearner(policy_period, critic_period, directory, checkpoint_enable)
    /\ FreshLoop("evaluator", 1, <<"x">>, TRUE)
    /\ FreshReplay(1, 1, None, 1)
    /\ FreshService(1)
    /\ FreshActor(FALSE, 1)
    /\ FreshCheckpoint
    /\ FreshAdder(1)

NextLearner ==
    \/ \E saved \in BOOLEAN : Step(saved) /\ UNCHANGED <<service_vars, checkpoint_vars>>
    \/ StepRaises /\ UNCHANGED <<service_vars, checkpoint_vars>>

LearnerSpec == InitLearner /\ [][NextLearner]_vars

\* one actor or evaluator, with the learner process writing snapshots
InitLoop ==
    /\ \E directory \in Directories :
          /\ FreshLearner(1, 1, directory, TRUE)
          /\ \E mode \in {"actor", "evaluator"}, average_over \in 1..MaxAverageOver,
                exists \in BOOLEAN :
                 FreshLoop(mode, average_over, directory, exists)
    /\ FreshReplay(1, 1, None, 1)
    /\ FreshService(1)
    /\ FreshActor(FALSE, 1)
    /\ FreshCheckpoint
    /\ FreshAdder(1)

NextLoop ==
    \/ RunEpisodeRolloutRaises
    \/ \E logging_data \in LoggingData : RunEpisodeActor(logging_data)
    \/ \E logging_data \in LoggingData, load \in {"ok", "oserror"} :
          RunEpisodeEvaluator(logging_data, load)
    \/ LearnerSnapshot

LoopSpec == InitLoop /\ [][NextLoop]_vars

\* the replay table with the actors inserting and the learner's dataset sampling
InitReplay ==
    /\ FreshLearner(1, 1, <<"x">>, FALSE)
    /\ FreshLoop("actor", 1, <<"x">>, TRUE)
    /\ \E min_size \in (MaxReplaySize - 2)..(MaxReplaySize - 1),
          max_size \in (MaxReplaySize - 2)..MaxReplaySize,
          ratio \in {None} \cup 1..MaxSamplesPerInsert,
          batch \in 1..MaxBatchSize :
           /\ FreshReplay(min_size, max_size, ratio, batch)
           /\ LimiterAccepted
    /\ FreshService(1)
    /\ FreshActor(FALSE, 1)
    /\ FreshCheckpoint
    /\ FreshAdder(1)

NextReplay ==
    \/ Insert
    \/ Sample
    \/ NextBatch

ReplaySpec == InitReplay /\ [][NextReplay]_vars

\* the learner process: run() calls and get_variables calls, one at a time
InitService ==
    /\ \E policy_period \in 1..MaxPeriod, critic_period \in 1..MaxPeriod :
           FreshLearner(policy_period, critic_period, <<"x">>, FALSE)
    /\ FreshLoop("actor", 1, <<"x">>, TRUE)
    /\ FreshReplay(1, 1, None, 1)
    /\ \E learner_steps \in 1..MaxLearnerSteps : FreshService(learner_steps)
    /\ FreshActor(FALSE, 1)
    /\ FreshCheckpoint
    /\ FreshAdder(1)

NextService ==
    \/ Run
    \/ BurstStep(FALSE)
    \/ BurstStepRaises
    \/ \E names \in {<<"policy">>, <<"critic">>} : GetVariables(names)
    \/ ClientWrites

ServiceSpec == InitService /\ [][NextService]_vars

\* one actor or evaluator from _make_actor on, with the learner stepping
InitActor ==
    /\ FreshLearner(1, 1, <<"x">>, FALSE)
    /\ FreshLoop("actor", 1, <<"x">>, TRUE)
    /\ FreshReplay(1, 1, None, 1)
    /\ FreshService(1)
    /\ \E source \in BOOLEAN, period \in 1..MaxUpdatePeriod : FreshActor(source, period)
    /\ FreshCheckpoint
    /\ FreshAdder(1)

NextActor ==
    \/ MakeActor
    \/ MakeActorFails
    \/ EnvStep
    \/ AnswerRequest
    \/ LearnerAdvance

ActorSpec == InitActor /\ [][NextActor]_vars

\* a learner that checkpoints, is stopped and is built anew
InitCheckpoint ==
    /\ \E policy_period \in 1..MaxPeriod, critic_period \in 1..MaxPeriod :
           FreshLearner(policy_period, critic_period, <<"x">>, TRUE)
    /\ FreshLoop("actor", 1, <<"x">>, TRUE)
    /\ FreshReplay(1, 1, None, 1)
    /\ FreshService(1)
    /\ FreshActor(FALSE, 1)
    /\ FreshCheckpoint
    /\ FreshAdder(1)

NextCheckpoint ==
    \/ \E saved \in BOOLEAN, checkpointed \in BOOLEAN : CheckpointedStep(saved, checkpointed)
    \/ UncheckpointedStepRaises
    \/ \E load \in BOOLEAN : Restart(load)
    \/ \E held \in PartialCheckpoints : RestartPartial(held)
    \/ RestartMissing

CheckpointSpec == InitCheckpoint /\ [][NextCheckpoint]_vars

\* an environment loop, actor or evaluator, and what its adder writes
InitAdder ==
    /\ FreshLearner(1, 1, <<"x">>, FALSE)
    /\ \E mode \in {"actor", "evaluator"} : FreshLoop(mode, 1, <<"x">>, TRUE)
    /\ FreshReplay(1, 1, None, 1)
    /\ FreshService(1)
    /\ FreshActor(FALSE, 1)
    /\ FreshCheckpoint
    /\ \E n \in 1..MaxNStep : FreshAdder(n)

NextAdder ==
    \/ ObserveFirst
    \/ \E last \in BOOLEAN : Observe(last)

AdderSpec == InitAdder /\ [][NextAdder]_vars

----------------------------------------------------------------------------
\* Properties

\* a step() call was made: both outcomes raise _num_steps
StepTaken == num_steps' = num_steps + 1

\* a step() call ran to its end
StepCompleted == counter_steps' = counter_steps + 1

\* C1: the target policy parameters change value only in a step whose step
\* count (the value of _num_steps the step starts with) is a multiple of
\* target_policy_update_period; every other step leaves them as they were.
C1_TargetPolicyChangesOnPeriodOnly ==
    [][target_policy' # target_policy
          => (StepTaken /\ num_steps % target_policy_update_period = 0)]_vars

\* C1 witness: with period 2 the sync of step count 2 has copied the policy
\* written by the second step, and step count 3 has left that copy in place
\* while the online policy moved on.
C1_Witness ==
    /\ target_policy_update_period = 2
    /\ num_steps = 4
    /\ counter_steps = 4
    /\ target_policy = 2
    /\ policy = 4

\* C2 as claimed: a step whose count is a multiple of
\* target_policy_update_period makes target policy and target observation
\* equal to online policy and online observation, and a step whose count is a
\* multiple of target_critic_update_period makes target critic and target
\* observation equal to online critic and online observation.
C2_BothSyncsCopyObservation ==
    [][StepTaken =>
          /\ (num_steps % target_policy_update_period = 0
                 => (target_policy' = policy /\ target_observation' = observation))
          /\ (num_steps % target_critic_update_period = 0
                 => (target_critic' = critic /\ target_observation' = observation))]_vars

\* C2 amended: the policy sync copies the online policy only; the critic sync
\* copies online critic and online observation; a step in which the critic
\* sync is not due leaves the target observation parameters as they were.
C2_OnlyCriticSyncCopiesObservation ==
    [][StepTaken =>
          /\ (num_steps % target_policy_update_period = 0 => target_policy' = policy)
          /\ (num_steps % target_critic_update_period = 0
                 => (target_critic' = critic /\ target_observation' = observation))
          /\ (num_steps % target_critic_update_period # 0
                 => target_observation' = target_observation)]_vars

\* C2 witness: policy period 1, critic period 2, after the step of count 1:
\* the target policy holds the policy of that step's start, the target
\* observation still the copy made at count 0.
C2_Witness ==
    /\ target_policy_update_period = 1
    /\ target_critic_update_period = 2
    /\ num_steps = 2
    /\ counter_steps = 2
    /\ target_policy = 1
    /\ target_observation = 0
    /\ target_critic = 0
    /\ observation = 2

\* C3: the optimizer applications of a step write no target parameter: after
\* a step the three target parameter sets are what the scheduled copy at the
\* start of the step made them, and no other step of the system writes them.
C3_GradientsLeaveTargetsAlone ==
    [][IF StepTaken
       THEN <<target_observation', target_policy', target_critic'>>
                = Targets(SyncTargets(LearnerParams, num_steps))
       ELSE UNCHANGED <<target_observation, target_policy, target_critic>>]_vars

\* C3 witness: periods 2, two completed steps: the step of count 1 applied
\* gradients with no copy due, the targets still hold the copy of count 0.
C3_Witness ==
    /\ target_policy_update_period = 2
    /\ target_critic_update_period = 2
    /\ last_step = "ok"
    /\ num_steps = 2
    /\ counter_steps = 2
    /\ policy = 2
    /\ observation = 2
    /\ critic = 2
    /\ target_policy = 0
    /\ target_observation = 0
    /\ target_critic = 0

\* C4: after any n completed step() calls of a fresh learner, the step
\* variable that drives the target sync and the logged "steps" count both
\* equal n (counter_steps is the number of completed calls).
C4_StepCountersAgree == num_steps = counter_steps

\* C5: a step is all or nothing: a step() call that does not run to its end
\* (it obtained no batch) leaves the step variable and the target parameters
\* as they were.
C5_StepIsAtomic ==
    [][~StepCompleted
          => UNCHANGED <<num_steps, target_observation, target_policy, target_critic>>]_vars

\* C6: the k-th successful snapshot write of a learner process is made under
\* version k-1, the written paths are pairwise distinct, the pending path
\* carries the next version, and a step whose save the time gate skips leaves
\* the pending version unchanged.
C6_SnapshotVersionsConsecutive ==
    /\ [](/\ \A i \in 1..Len(snap_log) : snap_log[i] = i - 1
          /\ Cardinality(disk) = Len(snap_log)
          /\ {Version(path) : path \in disk} = {i - 1 : i \in 1..Len(snap_log)}
          /\ \A path \in snapshots : Version(path) = Len(snap_log))
    /\ [][(StepCompleted /\ snap_log' = snap_log)
             => {Version(path) : path \in snapshots'}
                    = {Version(path) : path \in snapshots}]_vars

\* C6 witness: eleven completed steps, ten of them wrote a snapshot and one
\* was skipped by the time gate; the versions 0..9 are on disk and the pending
\* path carries version 10.
C6_Witness ==
    /\ counter_steps = 11
    /\ Len(snap_log) = 10
    /\ snap_log[10] = 9
    /\ \E path \in snapshots : Version(path) = 10

\* highest number among the policy-<n> entries of the snapshot directory
HighestOnDisk ==
    LET numbers == {MatchNumber(Name(path)) : path \in Entries}
    IN IF numbers = {} THEN -1
       ELSE CHOOSE m \in numbers : \A k \in numbers : k <= m

\* the last run_episode call is a successful evaluator episode
EpisodeResult == result.outcome # "none" /\ result.data # NullResult

\* C7: when no snapshot is available at poll time (the snapshot directory is
\* missing or empty) or the load of the newest snapshot failed, run_episode of
\* an evaluator returns the episode's result without raising and without
\* rendering.
C7_NoSnapshotSkipsRound ==
    (/\ actor_or_evaluator = "evaluator"
     /\ EpisodeResult
     /\ (~dir_exists \/ Entries = {} \/ poll.load = "oserror"))
        => (result.outcome = "returned" /\ result.rollout = -1)

\* C8: when the load of a claimed version v failed with an OSError, the next
\* poll that finds v still the highest version on disk attempts to load v
\* again, whatever was rendered before.
C8_FailedLoadIsRetried ==
    [][(/\ poll.load = "oserror"
        /\ recorded' # recorded
        /\ dir_exists
        /\ HighestOnDisk = poll.claimed)
          => (poll'.claimed = poll.claimed /\ poll'.load \in {"ok", "oserror"})]_vars

\* C8 witness: nothing was rendered yet, versions 0 and 1 are on disk, the
\* poll claimed version 1 (two above the previous -1), its load failed and
\* the claim was rolled back.
C8_Witness ==
    /\ poll = [claimed |-> 1, load |-> "oserror"]
    /\ HighestOnDisk = 1
    /\ last_video = -1
    /\ highest_snap_num = 0
    /\ Len(recorded) = 1

\* the last n elements of a sequence
LastN(xs, n) == SubSeq(xs, Len(xs) - n + 1, Len(xs))

\* C9: once more than eval_average_over successful episodes are recorded,
\* the result of a successful evaluator episode contains the aggregates, and
\* they are computed over the most recent eval_average_over episodes.
C9_AggregatesOnceWindowFull ==
    (/\ actor_or_evaluator = "evaluator"
     /\ EpisodeResult
     /\ result.outcome = "returned"
     /\ Len(recorded) > eval_average_over)
        => result.agg = <<Aggregate(LastN(recorded, eval_average_over))>>

\* C10: no result produced before eval_average_over successful episodes are
\* recorded contains an aggregate.
C10_NoAggregateBeforeWindowFull ==
    Len(recorded) < eval_average_over => result.agg = <<>>

\* C10 witness: eval_average_over is 2 and the first successful episode has
\* returned its result, without aggregates.
C10_Witness ==
    /\ actor_or_evaluator = "evaluator"
    /\ eval_average_over = 2
    /\ Len(recorded) = 1
    /\ result.outcome = "returned"
    /\ result.data = recorded[1]
    /\ result.agg = <<>>

C12_NoSampleBelowMinSize ==
    [][/\ samples' > samples => Len(table) >= min_replay_size
       /\ fetched' < fetched => (fetched >= batch_size /\ fetched' = fetched - batch_size)
       /\ (Len(table) < min_replay_size /\ fetched < batch_size /\ waiting' # waiting)
             => (waiting' /\ fetched' = fetched /\ samples' = samples)]_vars

\* C12 witness: the learner waits for its first batch while the table is one
\* item short of min_replay_size.
C12_Witness ==
    /\ waiting
    /\ Len(table) = min_replay_size - 1
    /\ samples = 0
    /\ fetched = 0

\* C13: the table never holds more than max_replay_size items; an insert
\* into a table holding max_replay_size items removes the oldest item and
\* appends the new one; and an insert is held back only by the ratio limit on
\* inserts over samples, whatever the size of the table.
C13_FullTableEvictsOldest ==
    /\ [](Len(table) <= max_replay_size)
    /\ [][(inserts' > inserts /\ Len(table) = max_replay_size)
             => table' = Append(Tail(table), inserts)]_vars
    /\ [][(insert_blocked' /\ ~insert_blocked)
             => /\ samples_per_insert # None
                /\ 10 * ((inserts + 1) * samples_per_insert - samples)
                      > 11 * samples_per_insert * min_replay_size]_vars

\* C13 witness: a full table that has evicted its two oldest items.
C13_Witness ==
    /\ Len(table) = max_replay_size
    /\ deletes = 2
    /\ table[1] = 2
    /\ table[Len(table)] = inserts - 1

\* C14 as stated: once sampling is admitted, the ratio of samples taken to
\* items inserted is within a tenth of samples_per_insert in every state.
C14_RatioWithinToleranceEverywhere ==
    (samples_per_insert # None /\ Len(table) >= min_replay_size)
        => /\ 10 * samples >= 9 * samples_per_insert * inserts
           /\ 10 * samples <= 11 * samples_per_insert * inserts

\* C14 amended: while at least min_replay_size items are resident, the
\* difference samples_per_insert * inserts - samples stays within the error
\* buffer 0.1 * samples_per_insert * min_replay_size of the offset
\* samples_per_insert * min_replay_size.
C14_DifferenceWithinErrorBuffer ==
    (samples_per_insert # None /\ Len(table) >= min_replay_size)
        => /\ 10 * (samples_per_insert * inserts - samples)
                 >= 9 * samples_per_insert * min_replay_size
           /\ 10 * (samples_per_insert * inserts - samples)
                 <= 11 * samples_per_insert * min_replay_size

\* C14 witness: samples have been served and the next one would leave the
\* error buffer, so it has to wait for an insert.
C14_Witness ==
    /\ samples_per_insert = 2
    /\ samples > 0
    /\ Len(table) >= min_replay_size
    /\ 10 * (samples_per_insert * inserts - samples - 1)
          < 9 * samples_per_insert * min_replay_size

\* C16: a loop built with a variable source takes an environment step only
\* after _make_actor's first fetch has been answered by the learner, so every
\* action is chosen with parameters read from the learner, never with the
\* ones the actor's own networks were initialised with; a loop whose first
\* fetch failed takes no step at all.
C16_NoStepBeforeFirstFetch ==
    [][(variable_source /\ env_steps' > env_steps)
          => /\ actor_pc = "ready"
             /\ get_variables_calls >= 1
             /\ actor_policy # OwnParameters]_vars

\* C16 witness: an actor with a variable source has taken a step with the
\* parameters the learner exposed after its first step.
C16_Witness ==
    /\ variable_source
    /\ env_steps = 1
    /\ policy_at = 0
    /\ actor_policy = <<0, 0>>

\* C17 as stated: whenever the actor takes an environment step, the
\* parameters it acts on were read from the learner at most
\* actor_update_period of its environment steps ago.
C17_NeverActsOnOlderParameters ==
    [][(variable_source /\ env_steps' > env_steps)
          => env_steps - policy_at <= actor_update_period]_vars

\* C17 amended: a request is sent only when at least actor_update_period
\* environment steps have passed since the last one (the first fetch
\* included), and it is sent at the first step at which that many have
\* passed and no earlier request is still unanswered or unadopted.
C17_RequestsSpacedByPeriod ==
    /\ [][requested_at' # requested_at
             => env_steps' - requested_at >= actor_update_period]_vars
    /\ [][(variable_source /\ env_steps' > env_steps /\ future.state = "none"
              /\ env_steps' - requested_at >= actor_update_period)
             => (requested_at' = env_steps' /\ future'.state = "pending")]_vars

\* C17 witness: with period 2 the request of step 2 was answered and adopted
\* and the next request went out at step 4.
C17_Witness ==
    /\ actor_update_period = 2
    /\ policy_at = 2
    /\ requested_at = 4
    /\ future.state = "pending"

\* C18: a value handed out by get_variables keeps the numbers it had when it
\* was handed out, whatever steps and target syncs the learner does later,
\* and a client's write into it leaves the learner's state as it was.
C18_ReturnedValuesAreCopies ==
    /\ [](\A i \in DOMAIN returned : Deref(returned[i]) = returned_was[i])
    /\ [][(returned_was' # returned_was /\ get_variables_calls' = get_variables_calls)
             => UNCHANGED <<learner_vars, disk>>]_vars

\* C18 witness: the target policy was handed out before the learner's first
\* step, the learner has synced its targets since, and the client has then
\* overwritten what it was handed.
C18_Witness ==
    /\ returned # <<>>
    /\ returned[1].name = "policy"
    /\ returned_was[1] = <<ClientMark, ClientMark>>
    /\ Exposed("policy") = <<1, 1>>

C20_RestoreReproducesCheckpoint ==
    [][(restarts' # restarts /\ restored')
          => /\ \A name \in ObjectsToSave : LearnerObjects'[name] = checkpoint[name]
             /\ num_steps' = checkpoint.num_steps
             /\ counter_steps' = checkpoint.counter.steps
             /\ PolicySyncDue(num_steps') = PolicySyncDue(checkpoint.num_steps)
             /\ CriticSyncDue(num_steps') = CriticSyncDue(checkpoint.num_steps)]_vars

\* C20 witness: a learner restored from the checkpoint of its second step
\* has taken its third step.
C20_Witness ==
    /\ restored
    /\ restarts = 1
    /\ DOMAIN checkpoint # {}
    /\ checkpoint.num_steps = 2
    /\ checkpoint.policy_optimizer = [group \in {"policy"} |-> 2]
    /\ num_steps = 3
    /\ counter_steps = 3
    /\ last_step = "ok"

\* C21: when a checkpoint path is given at learner start, restoration never
\* aborts construction: with a checkpoint that is missing or that covers a
\* part of the learner state only, the learner keeps what was restored and
\* comes out of its constructor ready to step.
C21_RestorationNeverAbortsConstruction ==
    [][restarts' # restarts => construction' = "built"]_vars

\* C22: the three optimizers write disjoint parameter groups in every step:
\* the critic optimizer the online observation and critic parameters only, the
\* policy optimizer the online policy parameters only, the dual optimizer the
\* MPO dual variables only; the policy optimizer never writes the observation
\* network.
C22_OptimizersWriteDisjointGroups ==
    [][StepCompleted
          => /\ optimizers'.critic = [group \in {"observation", "critic"} |-> num_steps']
             /\ optimizers'.policy = [group \in {"policy"} |-> num_steps']
             /\ optimizers'.dual = [group \in {"dual"} |-> num_steps']
             /\ \A group \in {"observation", "critic", "policy", "dual"} :
                    Cardinality({optimizer \in {"critic", "policy", "dual"} :
                                    group \in DOMAIN optimizers'[optimizer]}) = 1
             /\ <<observation', critic', policy', dual'>>
                    = <<num_steps', num_steps', num_steps', num_steps'>>]_vars

\* C22 witness: after two completed steps each optimizer holds slots for its
\* own groups, written in the second step, and no slot of another's group.
C22_Witness ==
    /\ counter_steps = 2
    /\ num_steps = 2
    /\ DOMAIN optimizers.critic = {"observation", "critic"}
    /\ DOMAIN optimizers.policy = {"policy"}
    /\ DOMAIN optimizers.dual = {"dual"}
    /\ optimizers.policy["policy"] = 2
    /\ observation = 2

\* the transitions an add() has just written
JustWritten == SubSeq(written', Len(written) + 1, Len(written'))

\* C23 as stated: an actor with n_step = n emits no transition until n
\* one-step records are buffered and from then on one per environment step;
\* an episode that ends with fewer than n records in the window flushes
\* exactly one shorter transition.
C23_NothingEmittedBeforeNRecords ==
    [][(adder = "n_step" /\ timestep' = timestep + 1)
          => Len(JustWritten) = IF timestep' >= n_step \/ ~in_episode' THEN 1 ELSE 0]_vars

\* C23 as amended: every add() of an actor's adder writes the transition
\* from the observation min(t, n) steps back to the present one, t being the
\* steps of the episode so far, so the first n - 1 transitions of an episode
\* are shorter ones that start at its first observation; the add() that ends
\* the episode writes min(t, n) - 1 more, each starting one step later than
\* the one before and all ending at the last observation.
C23_OneTransitionPerStepAndShorterOnesAtBothEnds ==
    [][(adder = "n_step" /\ timestep' = timestep + 1)
          => LET t == timestep'
                 lo == IF t > n_step THEN t - n_step ELSE 0
             IN  /\ Len(JustWritten) = IF in_episode' THEN 1 ELSE t - lo
                 /\ \A i \in 1..Len(JustWritten) :
                        /\ JustWritten[i].first = lo + i - 1
                        /\ JustWritten[i].last = t]_vars

\* C23 witness: n_step = 2 and an episode of three steps: the adder wrote
\* 0-1, 0-2, 1-3 as the steps came and 2-3 when the episode ended.
C23_Witness ==
    /\ n_step = 2
    /\ adder = "n_step"
    /\ episodes = 1
    /\ ~in_episode
    /\ Len(written) = 4
    /\ <<written[1].first, written[1].last>> = <<0, 1>>
    /\ <<written[2].first, written[2].last>> = <<0, 2>>
    /\ <<written[3].first, written[3].last>> = <<1, 3>>
    /\ <<written[4].first, written[4].last>> = <<2, 3>>

\* C24: an evaluator never inserts into the replay buffer: every transition
\* handed to replay was written by a loop built in actor mode, and an
\* evaluator holds neither a replay client nor an adder.
C24_EvaluatorNeverInserts ==
    /\ \A i \in 1..Len(written) : written[i].by = "actor"
    /\ actor_or_evaluator = "evaluator"
          => (~reverb_client /\ adder = "none" /\ written = <<>>)

\* C24 witness: an evaluator has run two episodes, the second of three
\* steps, and nothing was handed to replay.
C24_Witness ==
    /\ actor_or_evaluator = "evaluator"
    /\ episodes = 2
    /\ timestep = 3
    /\ ~in_episode
    /\ written = <<>>

\* C25: after a successful snapshot write the pending snapshot path differs
\* from the path just written in its trailing version number only, which is
\* one greater; no other part of the path, such as a directory whose name
\* holds the text policy-<version>, is altered.
C25_RenameTouchesTrailingVersionOnly ==
    [][snap_log' # snap_log
          => \A path \in snapshots :
                 Join(Parent(path), PolicyName(Version(path) + 1)) \in snapshots']_vars

\* C26: get_variables(['policy']) returns the target observation and target
\* policy parameters, never the online ones, and changes nothing but the
\* get_variables_calls count: the step counters and all network parameters
\* are the same before and after the call, and as the exposed parameters
\* change in learner steps only, two calls with no step between them return
\* equal values.
C26_GetVariablesReadsTargetsAndWritesNothing ==
    /\ [][get_variables_calls' # get_variables_calls
             => /\ \A i \in DOMAIN returned' :
                       returned'[i].value
                           = IF returned'[i].name = "policy"
                             THEN <<target_observation, target_policy>>
                             ELSE <<target_critic>>
                /\ UNCHANGED <<num_steps, counter_steps, observation, policy, critic, dual,
                               optimizers, target_observation, target_policy,
                               target_critic>>]_vars
    /\ [][num_steps' = num_steps
             => UNCHANGED <<target_observation, target_policy, target_critic>>]_vars

\* C26 witness: the second get_variables(['policy']) call, made after two
\* steps, handed out the targets synced in the second step while the online
\* networks hold what that step wrote.
C26_Witness ==
    /\ get_variables_calls = 2
    /\ counter_steps = 2
    /\ returned # <<>>
    /\ returned[1].name = "policy"
    /\ returned[1].value = <<1, 1>>
    /\ <<observation, policy>> = <<2, 2>>
    /\ <<target_observation, target_policy>> = <<1, 1>>

\* C27: the policy parameters exposed to actors and written to snapshots
\* (target observation network, then target policy network) are always a copy
\* of the online observation and policy parameters taken at one and the same
\* learner step, for every pair of sync periods: the exposed observation part
\* and the exposed policy part are never copies from different step counts.
C27_ExposedPartsCopiedAtOneStep ==
    [](target_observation = target_policy)

\* C28: with the sample-to-insert limiter as ReplayServer configures it (a
\* window of 0.1 * samples_per_insert * min_replay_size to either side of the
\* target, this error buffer being at least max(1, samples_per_insert)), no
\* reachable state has both the actors' next insert and the learner's next
\* sample blocked by the limiter.
C28_LimiterNeverBlocksBoth ==
    /\ [](samples_per_insert # None => (CanInsert(1) \/ CanSample(1)))
    /\ [][(samples_per_insert # None /\ ~insert_blocked /\ insert_blocked')
             => CanSample(1)']_vars

\* C28 witness: after the learner has sampled, the limiter has turned an
\* insert beyond min_replay_size away while it admits the learner's next
\* sample.
C28_Witness ==
    /\ samples_per_insert # None
    /\ insert_blocked
    /\ ~CanInsert(1)
    /\ CanSample(1)
    /\ samples >= 1
    /\ inserts > min_replay_size

\* C29: the snapshot version is not part of the checkpointed state: a learner
\* built from a checkpoint starts with pending snapshot version 0 again,
\* whatever versions the learner process before it has written, so its first
\* snapshot write is made under version 0 once more.
C29_SnapshotVersionStartsAnew ==
    /\ [][(restarts' # restarts /\ restored')
             => (snapshots' # {} /\ \A path \in snapshots' : Version(path) = 0)]_vars
    /\ [][snap_log' # snap_log
             => /\ snap_log' = snap_log \o <<Version(CHOOSE path \in snapshots : TRUE)>>
                /\ snapshots \subseteq disk']_vars

\* C29 witness: a learner wrote versions 0 and 1, was built anew from its
\* checkpoint of step count 2, and its first snapshot write was made under
\* version 0 again.
C29_Witness ==
    /\ restarts = 1
    /\ restored
    /\ checkpoint.num_steps = 2
    /\ snap_log = <<0, 1, 0>>
    /\ Cardinality(disk) = 2
    /\ \A path \in snapshots : Version(path) = 1

\* C30: over any sequence of evaluator polls the versions of the snapshots
\* that are loaded and rendered are strictly increasing: a poll renders the
\* highest version on disk or nothing, no version is rendered twice, and no
\* version below one rendered before is rendered.
C30_RenderedVersionsIncrease ==
    [][(Len(recorded') > Len(recorded) /\ result'.outcome = "returned"
                                       /\ result'.rollout # -1)
          => /\ result'.rollout > last_video
             /\ result'.rollout = HighestOnDisk
             /\ last_video' = result'.rollout]_vars

\* C30 witness: the evaluator's third poll has loaded and rendered version 1,
\* the highest on disk.
C30_Witness ==
    /\ Len(recorded) = 3
    /\ result.rollout = 1
    /\ last_video = 1
    /\ highest_snap_num = 1
    /\ poll = [claimed |-> 1, load |-> "ok"]
    /\ HighestOnDisk = 1

\* C31: the first gradient step of a fresh learner, at step count 0, does both
\* target syncs, so after the first completed step the target policy equals
\* the initial online policy and the target critic and observation equal the
\* initial online critic and observation, whatever values the target networks
\* were initialised with.
C31_FirstStepSyncsBothTargets ==
    /\ [][(StepTaken /\ num_steps = 0)
             => /\ target_policy' = policy
                /\ target_critic' = critic
                /\ target_observation' = observation]_vars
    /\ [][(StepCompleted /\ counter_steps = 0)
             => /\ target_policy' = OnlineInit
                /\ target_critic' = OnlineInit
                /\ target_observation' = OnlineInit
                /\ OnlineInit # TargetInit]_vars

\* C31 witness: both periods are 2 and one step is completed: the three
\* targets hold the initial online values, no longer their own initial ones,
\* and the online networks hold what the step wrote.
C31_Witness ==
    /\ target_policy_update_period = 2
    /\ target_critic_update_period = 2
    /\ num_steps = 1
    /\ counter_steps = 1
    /\ <<target_observation, target_policy, target_critic>>
           = <<OnlineInit, OnlineInit, OnlineInit>>
    /\ <<observation, policy, critic>> = <<1, 1, 1>>

\* C32: after every run_episode call of an evaluator the rolling statistics
\* list holds at most eval_average_over entries, and they are the most recent
\* successful episodes in the order they arrived: the entry dropped is the
\* oldest one.
C32_WindowHoldsMostRecentEpisodes ==
    /\ Len(stats) <= eval_average_over
    /\ Len(stats) <= Len(recorded)
    /\ stats = LastN(recorded, Len(stats))
    /\ actor_or_evaluator # "evaluator" => stats = <<>>

\* C32 witness: with eval_average_over = 2 an evaluator has recorded three
\* episodes, the last two with different results, and the list holds the
\* last of them.
C32_Witness ==
    /\ actor_or_evaluator = "evaluator"
    /\ eval_average_over = 2
    /\ Len(recorded) = 3
    /\ recorded[2] # recorded[3]
    /\ stats = <<recorded[3]>>

====
